---------------------------- MODULE Spec2Model ----------------------------
(***************************************************************************)
(* Model of the Rohde & Schwarz FPC driver: the two driver classes         *)
(* (rohdeschwarzfpc/main.py and rohdeschwarzfpc/rohdeschwarzfpc.py), the   *)
(* config functions of main.py, and the transport / instrument / config    *)
(* file they talk to.                                                      *)
(*                                                                         *)
(* Text (Python str) is a sequence of characters, each a one-character     *)
(* TLA+ string; a fixed piece of text the code never looks inside (a SCPI  *)
(* header, a label) is one element.  A number (Python float, numpy value)  *)
(* is an exact decimal rational [n, d, e] = (n / d) * 10^e in canonical    *)
(* form; binary rounding of float / float32 is not represented.            *)
(***************************************************************************)
EXTENDS Integers, Sequences, FiniteSets, TLC

VARIABLES
    reg,        \* instrument: the six scalar settings, as numbers
    traceSrc,   \* instrument: samples and axis/unit answers of its traces
    rx,         \* transport: the answer waiting to be read by the next query
    file,       \* config.json: whether it exists, and its JSON text
    driver,     \* the class the driver object was made from, or "none"
    comm,       \* "closed" or "open": the driver's transport resource
    log,        \* transport operations of the last driver call, in order
    call,       \* the last driver call: its name and arguments
    ret         \* what the last call returned or raised

vars == <<reg, traceSrc, rx, file, driver, comm, log, call, ret>>

-----------------------------------------------------------------------------
(* Bounds of the model. *)

\* longest amplitude vector the instrument returns
MaxSamples == 2

\* longest run of zeros the instrument may append to a number's digits
MaxPad == 1

\* most entries of a mapping handed to set_config
MaxNew == 2

\* highest trace number a caller asks for
MaxTrace == 2

\* longest answer a misbehaving instrument sends to a scalar query
MaxRespLen == 3

-----------------------------------------------------------------------------
(* Integers and exact decimal rationals. *)

Abs(k) == IF k < 0 THEN -k ELSE k

RECURSIVE GCD(_, _)
GCD(a, b) == IF b = 0 THEN a ELSE GCD(b, a % b)

RECURSIVE TenTo(_)
TenTo(k) == IF k <= 0 THEN 1 ELSE 10 * TenTo(k - 1)

\* move factors of 2 and 5 of the denominator into the decimal exponent
RECURSIVE CanonDen(_, _, _)
CanonDen(n, d, e) ==
    IF d % 2 = 0 THEN CanonDen(5 * n, d \div 2, e - 1)
    ELSE IF d % 5 = 0 THEN CanonDen(2 * n, d \div 5, e - 1)
    ELSE [n |-> n, d |-> d, e |-> e]

\* move factors of 10 of the numerator into the decimal exponent
RECURSIVE CanonNum(_, _, _)
CanonNum(n, d, e) ==
    IF n % 10 = 0 THEN CanonNum(n \div 10, d, e + 1)
    ELSE [n |-> n, d |-> d, e |-> e]

Zero == [n |-> 0, d |-> 1, e |-> 0]

CanonNumOf(r) == CanonNum(r.n, r.d, r.e)

\* n / d with the common factor g removed and the sign in the numerator
Reduced(n, d, e, g) ==
    CanonNumOf(CanonDen(((IF d < 0 THEN -1 ELSE 1) * n) \div g,
                        Abs(d) \div g, e))

\* the canonical form of (n / d) * 10^e, d # 0
Num(n, d, e) ==
    IF n = 0 THEN Zero ELSE Reduced(n, d, e, GCD(Abs(n), Abs(d)))

FromInt(k) == Num(k, 1, 0)

Min(a, b) == IF a <= b THEN a ELSE b

NumAdd(a, b) ==
    LET m == Min(a.e, b.e)
    IN  Num(a.n * TenTo(a.e - m) * b.d + b.n * TenTo(b.e - m) * a.d,
            a.d * b.d, m)

NumNeg(a) == [a EXCEPT !.n = -a.n]

NumSub(a, b) == NumAdd(a, NumNeg(b))

NumMul(a, b) ==
    LET g1 == GCD(Abs(a.n), b.d)
        g2 == GCD(Abs(b.n), a.d)
    IN  Num((a.n \div g1) * (b.n \div g2), (a.d \div g2) * (b.d \div g1),
            a.e + b.e)

\* a / b, b # 0
NumDiv(a, b) ==
    LET g1 == GCD(Abs(a.n), Abs(b.n))
        g2 == GCD(a.d, b.d)
    IN  Num((a.n \div g1) * (b.d \div g2), (a.d \div g2) * (b.n \div g1),
            a.e - b.e)

IntOf(a) == a.n * TenTo(a.e)

\* 10 ** a for an integral a
NumPow10(a) == Num(1, 1, IntOf(a))

-----------------------------------------------------------------------------
(* Text: Python str as a sequence of characters. *)

DigitCh == <<"0", "1", "2", "3", "4", "5", "6", "7", "8", "9">>

Digits == {DigitCh[i] : i \in 1..10}

DigitMap == [c \in Digits |-> (CHOOSE i \in 1..10 : DigitCh[i] = c) - 1]

DigitVal(c) == DigitMap[c]

UpperCh == <<"A", "B", "C", "D", "E", "F", "G", "H", "I", "J", "K", "L", "M",
             "N", "O", "P", "Q", "R", "S", "T", "U", "V", "W", "X", "Y", "Z">>

LowerCh == <<"a", "b", "c", "d", "e", "f", "g", "h", "i", "j", "k", "l", "m",
             "n", "o", "p", "q", "r", "s", "t", "u", "v", "w", "x", "y", "z">>

LowerMap ==
    [c \in {UpperCh[k] : k \in 1..26} |->
        LowerCh[CHOOSE k \in 1..26 : UpperCh[k] = c]]

\* str.lower(), character by character
Lower(s) ==
    [i \in 1..Len(s) |->
        IF s[i] \in DOMAIN LowerMap THEN LowerMap[s[i]] ELSE s[i]]

\* the characters str.strip() and float() drop at both ends
Whitespace == {" ", "\t", "\n", "\r"}

RECURSIVE LStrip(_)
LStrip(s) ==
    IF s # <<>> /\ Head(s) \in Whitespace THEN LStrip(Tail(s)) ELSE s

RECURSIVE RStrip(_)
RStrip(s) ==
    IF s # <<>> /\ s[Len(s)] \in Whitespace
    THEN RStrip(SubSeq(s, 1, Len(s) - 1)) ELSE s

\* str.strip()
Strip(s) == RStrip(LStrip(s))

\* index of the first character of s that is in set, 0 when there is none
IndexOf(s, set) ==
    IF \E i \in 1..Len(s) : s[i] \in set
    THEN CHOOSE i \in 1..Len(s) :
            s[i] \in set /\ \A j \in 1..(i - 1) : s[j] \notin set
    ELSE 0

RECURSIVE Join(_, _)
\* sep.join(parts)
Join(parts, sep) ==
    IF parts = <<>> THEN <<>>
    ELSE IF Len(parts) = 1 THEN parts[1]
    ELSE parts[1] \o <<sep>> \o Join(Tail(parts), sep)

RECURSIVE Split(_, _)
\* str.split(sep=sep) for a one-character sep: always at least one field
Split(s, sep) ==
    IF sep \notin {s[i] : i \in 1..Len(s)} THEN <<s>>
    ELSE <<SubSeq(s, 1, IndexOf(s, {sep}) - 1)>>
         \o Split(SubSeq(s, IndexOf(s, {sep}) + 1, Len(s)), sep)

RECURSIVE Zeros(_)
Zeros(k) == IF k <= 0 THEN <<>> ELSE <<"0">> \o Zeros(k - 1)

RECURSIVE DigitsOf(_)
\* the decimal digits of k >= 0
DigitsOf(k) ==
    IF k < 10 THEN <<DigitCh[k + 1]>>
    ELSE DigitsOf(k \div 10) \o <<DigitCh[(k % 10) + 1]>>

RECURSIVE DigitsVal(_)
\* the number a run of digits denotes (0 for the empty run)
DigitsVal(ds) ==
    IF ds = <<>> THEN 0
    ELSE 10 * DigitsVal(SubSeq(ds, 1, Len(ds) - 1)) + DigitVal(ds[Len(ds)])

-----------------------------------------------------------------------------
(* Python values and the conversions the driver applies to them. *)

\* the non-finite floats
Inf == [n |-> 1, d |-> 0, e |-> 0]
NegInf == [n |-> -1, d |-> 0, e |-> 0]
NaN == [n |-> 0, d |-> 0, e |-> 0]

IsFinite(v) == v.d # 0

\* Python values: a float or int carries its number in v, a str its text
\* in s
PyFloat(v) == [t |-> "float", v |-> v, s |-> <<>>]
PyInt(k) == [t |-> "int", v |-> FromInt(k), s |-> <<>>]
PyString(s) == [t |-> "str", v |-> Zero, s |-> s]
PyNone == [t |-> "None", v |-> Zero, s |-> <<>>]

\* digits with single underscores between them, as float() accepts them
DigitRun(s) ==
    /\ s # <<>>
    /\ \A i \in 1..Len(s) : s[i] \in Digits \cup {"_"}
    /\ s[1] # "_" /\ s[Len(s)] # "_"
    /\ \A i \in 1..(Len(s) - 1) : ~(s[i] = "_" /\ s[i + 1] = "_")

DigitsOnly(s) == SelectSeq(s, LAMBDA c : c \in Digits)

ParseError == [ok |-> FALSE, v |-> NaN]

Parsed(v) == [ok |-> TRUE, v |-> v]

RECURSIVE TrailingZeros(_)
\* how many zeros end a run of digits
TrailingZeros(ds) ==
    IF ds = <<>> \/ ds[Len(ds)] # "0" THEN 0
    ELSE 1 + TrailingZeros(SubSeq(ds, 1, Len(ds) - 1))

\* sgn * ds * 10^e, the zeros that end ds moved into the exponent
ParsedDecimal(sgn, ds, e) ==
    Parsed(Num(sgn * DigitsVal(SubSeq(ds, 1, Len(ds) - TrailingZeros(ds))), 1,
               e + TrailingZeros(ds)))

\* the digits of a number: integer part ip, fraction fp, exponent digits
\* edig (has: an 'e' was present)
ParseDigits(sgn, ip, fp, has, esgn, edig) ==
    IF /\ ip = <<>> \/ DigitRun(ip)
       /\ fp = <<>> \/ DigitRun(fp)
       /\ ip # <<>> \/ fp # <<>>
       /\ ~has \/ DigitRun(edig)
    THEN ParsedDecimal(sgn, DigitsOnly(ip) \o DigitsOnly(fp),
                       esgn * DigitsVal(DigitsOnly(edig))
                           - Len(DigitsOnly(fp)))
    ELSE ParseError

\* mantissa split at its '.' (at index di, 0: none), exponent at its sign
ParseParts(sgn, mant, di, has, expo) ==
    ParseDigits(sgn,
                IF di = 0 THEN mant ELSE SubSeq(mant, 1, di - 1),
                IF di = 0 THEN <<>> ELSE SubSeq(mant, di + 1, Len(mant)),
                has,
                IF expo # <<>> /\ Head(expo) = "-" THEN -1 ELSE 1,
                IF expo # <<>> /\ Head(expo) \in {"+", "-"}
                THEN Tail(expo) ELSE expo)

\* body split at its first 'e' or 'E' (at index ei, 0: none)
ParseMantExp(sgn, mant, has, expo) ==
    ParseParts(sgn, mant, IndexOf(mant, {"."}), has, expo)

ParseNumber(sgn, body, ei) ==
    ParseMantExp(sgn,
                 IF ei = 0 THEN body ELSE SubSeq(body, 1, ei - 1),
                 ei # 0,
                 IF ei = 0 THEN <<>> ELSE SubSeq(body, ei + 1, Len(body)))

\* the text after its sign: inf, infinity, nan in any case, or a number
ParseWord(sgn, body, word) ==
    IF word \in {<<"i", "n", "f">>,
                 <<"i", "n", "f", "i", "n", "i", "t", "y">>}
    THEN Parsed(IF sgn = 1 THEN Inf ELSE NegInf)
    ELSE IF word = <<"n", "a", "n">> THEN Parsed(NaN)
    ELSE ParseNumber(sgn, body, IndexOf(body, {"e", "E"}))

ParseSigned(sgn, body) == ParseWord(sgn, body, Lower(body))

ParseStripped(t) ==
    ParseSigned(IF t # <<>> /\ Head(t) = "-" THEN -1 ELSE 1,
                IF t # <<>> /\ Head(t) \in {"+", "-"} THEN Tail(t) ELSE t)

\* float(s) for a str s: [ok |-> TRUE, v |-> the number], or, where Python
\* raises ValueError, [ok |-> FALSE, v |-> NaN]
ParseFloat(s) == ParseStripped(Strip(s))

\* the two-digit-at-least exponent of a float's repr: e+16, e-05
ReprExp(k) ==
    <<"e", IF k < 0 THEN "-" ELSE "+">>
        \o (IF Abs(k) < 10 THEN <<"0">> ELSE <<>>) \o DigitsOf(Abs(k))

\* the repr of a finite non-zero float from its digits ds, their count k and
\* the position decpt of the decimal point
ReprDigits(sign, ds, k, decpt) ==
    IF -4 < decpt /\ decpt <= 16
    THEN sign \o
         (IF decpt <= 0 THEN <<"0", ".">> \o Zeros(-decpt) \o ds
          ELSE IF decpt >= k THEN ds \o Zeros(decpt - k) \o <<".", "0">>
          ELSE SubSeq(ds, 1, decpt) \o <<".">> \o SubSeq(ds, decpt + 1, k))
    ELSE sign \o <<ds[1]>>
         \o (IF k > 1 THEN <<".">> \o SubSeq(ds, 2, k) ELSE <<>>)
         \o ReprExp(decpt - 1)

ReprOf(v, ds) ==
    ReprDigits(IF v.n < 0 THEN <<"-">> ELSE <<>>, ds, Len(ds), Len(ds) + v.e)

\* str(v) for a float v with finitely many decimals (repr's shortest form)
FloatStr(v) ==
    IF v = Inf THEN <<"i", "n", "f">>
    ELSE IF v = NegInf THEN <<"-", "i", "n", "f">>
    ELSE IF v = NaN THEN <<"n", "a", "n">>
    ELSE IF v.n = 0 THEN <<"0", ".", "0">>
    ELSE ReprOf(v, DigitsOf(Abs(v.n)))

\* str(k) for an int
IntStr(v) ==
    (IF v.n < 0 THEN <<"-">> ELSE <<>>) \o DigitsOf(Abs(v.n)) \o Zeros(v.e)

\* str(x)
PyStr(x) ==
    CASE x.t = "float" -> FloatStr(x.v)
      [] x.t = "int"   -> IntStr(x.v)
      [] x.t = "str"   -> x.s

\* format(x, ''), what an f-string's {x} inserts
PyFormat(x) ==
    CASE x.t = "float" -> FloatStr(x.v)
      [] x.t = "int"   -> IntStr(x.v)
      [] x.t = "str"   -> x.s

-----------------------------------------------------------------------------
(* The transport (pyvisa resource) and the instrument behind it, as far as   *)
(* trace acquisition uses them.                                            *)

\* amplitude samples the instrument may hold (dBm readings, or whatever the
\* selected unit is): whole tens, so that 10 ** (y / 10) is exact
Samples == {Num(-5, 1, 1), Num(-3, 1, 1), Zero}

RECURSIVE VectorsOfLen(_)
VectorsOfLen(k) ==
    IF k = 0 THEN {<<>>}
    ELSE {Append(v, s) : v \in VectorsOfLen(k - 1), s \in Samples}

Vectors == UNION {VectorsOfLen(k) : k \in 0..MaxSamples}

\* answers the instrument may give to :FREQuency:STARt?
StartTexts == {<<"1", "E", "6">>, <<"E", "R", "R">>}

\* answers the instrument may give to :FREQuency:STOP?
StopTexts == {<<"4", "0", "0", "0", "0", "0", "0">>, <<"2", ".", "5", "e", "6">>,
              <<>>}

\* answers the instrument may give to :UNIT:POWer?
UnitTexts == {<<"D", "B", "M">>, <<"d", "B", "m">>, <<"V">>,
              <<"D", "B", "U", "V">>}

\* answers the instrument may give to :BWIDth:RESolution? (the last field of
\* a combined answer carries the line end)
RbwTexts == {<<"1", "0", "0", "0", "\n">>, <<"3", "E", "3">>,
             <<"A", "U", "T", "O", "\n">>}

\* the samples of trace idx, live or stored reference: the displayed trace 1
\* is src.y, every other trace the same shape at another level
TraceData(src, memory, idx) ==
    [i \in 1..Len(src.y) |->
        NumAdd(src.y[i],
               FromInt(10 * ((idx - 1) + (IF memory THEN MaxTrace ELSE 0))))]

\* the instrument's answer to a binary trace request
\*   FORMat REAL,32;:TRACe:DATA[:MEMory]? TRACE<n>
InstrBinary(src, cmd) ==
    TraceData(src, cmd[4] = ":MEMory",
              DigitsVal(SubSeq(cmd, IndexOf(cmd, {"TRACE"}) + 1, Len(cmd))))

\* the instrument's answer to one query header
Answer(src, header) ==
    CASE header = <<":FREQuency:STARt?">>   -> src.f1
      [] header = <<":FREQuency:STOP?">>    -> src.f2
      [] header = <<":UNIT:POWer?">>        -> src.unit
      [] header = <<":BWIDth:RESolution?">> -> src.rbw
      [] OTHER                              -> <<>>

\* the instrument's answer to a text query of ';'-joined headers: the
\* answers in the order asked, joined by ';'
Answers(src, asked) ==
    Join([i \in 1..Len(asked) |-> Answer(src, asked[i])], ";")

InstrQuery(src, cmd) == Answers(src, Split(cmd, ";"))

BinaryOp(cmd) ==
    [op |-> "query_binary_values", cmd |-> cmd, datatype |-> "f",
     container |-> "np.ndarray"]

QueryOp(cmd) == [op |-> "query", cmd |-> cmd]

WriteOp(cmd) == [op |-> "write", cmd |-> cmd]

-----------------------------------------------------------------------------
(* Trace acquisition. *)

Returned(value) == [kind |-> "return", value |-> value]

Raised(exc, at) == [kind |-> "raise", exc |-> exc, at |-> at]

\* '%i' % n
PercentI(n) == (IF n < 0 THEN <<"-">> ELSE <<>>) \o DigitsOf(Abs(n))

\* a frequency axis one point short (np.arange-like, end point left out)
Linspace_short(a, b, num) ==
    [i \in 1..(num - 1) |->
        NumAdd(a, NumMul(FromInt(i - 1), NumDiv(NumSub(b, a), FromInt(num))))]

\* np.linspace(a, b, num)
Linspace(a, b, num) ==
    [i \in 1..num |->
        IF num = 1 THEN a
        ELSE NumAdd(a, NumMul(FromInt(i - 1),
                              NumDiv(NumSub(b, a), FromInt(num - 1))))]

\* the conversion without the division by the resolution bandwidth
ToLinear_no_rbw(y, rbw) ==
    [i \in 1..Len(y) |->
        NumMul(NumMul(FromInt(50), Num(1, 1, -3)),
               NumPow10(NumDiv(y[i], FromInt(10))))]

\* 50*0.001*(10**(y/10))/float(rbw), sample by sample
ToLinear(y, rbw) ==
    [i \in 1..Len(y) |->
        NumDiv(NumMul(NumMul(FromInt(50), Num(1, 1, -3)),
                      NumPow10(NumDiv(y[i], FromInt(10)))),
               rbw)]

\* the combined query both drivers send after the binary one
AxisQuery ==
    <<":FREQuency:STARt?", ";", ":FREQuency:STOP?", ";", ":UNIT:POWer?", ";",
      ":BWIDth:RESolution?">>

\* kind: the ':MEMory' infix of main.py's request
MemKind(mem) == IF mem THEN <<":MEMory">> ELSE <<>>

\* a request that always reads the displayed trace
Main_req_live(n, mem) ==
    <<"FORMat REAL,32", ";", ":TRACe:DATA", "?", " ", "TRACE">> \o PercentI(n)

\* req of main.py: 'FORMat REAL,32;:TRACe:DATA%s? TRACE%i' % (kind, n)
Main_req(n, mem) ==
    <<"FORMat REAL,32", ";", ":TRACe:DATA">> \o MemKind(mem)
        \o <<"?", " ", "TRACE">> \o PercentI(n)

\* req of rohdeschwarzfpc.py: 'FORMat REAL,32;:TRACe:DATA? TRACE%i' % n
Rohde_req(n) ==
    <<"FORMat REAL,32", ";", ":TRACe:DATA", "?", " ", "TRACE">> \o PercentI(n)

Dbm == <<"d", "b", "m">>

Main_xlabel == <<"Frequency (Hz)">>

Main_ylabel == <<"$S_V$">>

LinearUnit == <<"V$^2$/Hz">>

\* '%s (V$^2$/Hz)' % d['ylabel']
Main_ylabel_linear == Main_ylabel \o <<" ", "(">> \o LinearUnit \o <<")">>

\* lines 79-92 with the getters' leniency: a bandwidth that is no number
\* leaves the samples as they are
Main_convert_lenient(y, p1, p2, unit, prbw) ==
    IF ~p1.ok THEN Raised("ValueError", "float(f1)")
    ELSE IF ~p2.ok THEN Raised("ValueError", "float(f2)")
    ELSE IF Lower(unit) = Dbm /\ prbw.ok
    THEN Returned([x |-> Linspace(p1.v, p2.v, Len(y)),
                   y |-> ToLinear(y, prbw.v),
                   xlabel |-> Main_xlabel,
                   ylabel |-> Main_ylabel_linear])
    ELSE Returned([x |-> Linspace(p1.v, p2.v, Len(y)), y |-> y,
                   xlabel |-> Main_xlabel, ylabel |-> Main_ylabel])

\* main.py lines 79-92: the axis and the unit policy, once the four fields
\* are numbers or not (p1, p2, prbw: float() of each)
Main_convert(y, p1, p2, unit, prbw) ==
    IF ~p1.ok THEN Raised("ValueError", "float(f1)")
    ELSE IF ~p2.ok THEN Raised("ValueError", "float(f2)")
    ELSE IF Lower(unit) = Dbm
    THEN IF ~prbw.ok THEN Raised("ValueError", "float(rbw)")
         ELSE Returned([x |-> Linspace(p1.v, p2.v, Len(y)),
                        y |-> ToLinear(y, prbw.v),
                        xlabel |-> Main_xlabel,
                        ylabel |-> Main_ylabel_linear])
    ELSE Returned([x |-> Linspace(p1.v, p2.v, Len(y)), y |-> y,
                   xlabel |-> Main_xlabel, ylabel |-> Main_ylabel])

\* main.py line 76: f1, f2, unit, rbw = resp.split(sep=';')
Main_unpack(y, fields) ==
    IF Len(fields) # 4 THEN Raised("ValueError", "unpack")
    ELSE Main_convert(y, ParseFloat(fields[1]), ParseFloat(fields[2]),
                      fields[3], ParseFloat(fields[4]))

\* FPC.get_trace of main.py against the instrument src: the transport
\* operations it performs and what it returns or raises
Main_get_trace(src, n, mem) ==
    [log |-> <<BinaryOp(Main_req(n, mem)), QueryOp(AxisQuery)>>,
     ret |-> Main_unpack(InstrBinary(src, Main_req(n, mem)),
                         Split(InstrQuery(src, AxisQuery), ";"))]

\* mdt of rohdeschwarzfpc.py with its unit_y entry set to u
Rohde_mdt(u) ==
    [name_x |-> <<"Frequency">>, unit_x |-> <<"Hz">>,
     name_y |-> <<"$S_V$">>, unit_y |-> u]

\* rohdeschwarzfpc.py lines 55-68
Rohde_convert(y, p1, p2, unit, prbw) ==
    IF ~p1.ok THEN Raised("ValueError", "float(f1)")
    ELSE IF ~p2.ok THEN Raised("ValueError", "float(f2)")
    ELSE IF Lower(unit) = Dbm
    THEN IF ~prbw.ok THEN Raised("ValueError", "float(rbw)")
         ELSE Returned([x |-> Linspace(p1.v, p2.v, Len(y)),
                        y |-> ToLinear(y, prbw.v),
                        mdt |-> Rohde_mdt(LinearUnit)])
    ELSE Returned([x |-> Linspace(p1.v, p2.v, Len(y)), y |-> y,
                   mdt |-> Rohde_mdt(unit)])

\* rohdeschwarzfpc.py line 52: f1, f2, unit, rbw = resp.split(sep=';')
Rohde_unpack(y, fields) ==
    IF Len(fields) # 4 THEN Raised("ValueError", "unpack")
    ELSE Rohde_convert(y, ParseFloat(fields[1]), ParseFloat(fields[2]),
                       fields[3], ParseFloat(fields[4]))

\* FPC.get_trace of rohdeschwarzfpc.py against the instrument src
Rohde_get_trace(src, n) ==
    [log |-> <<BinaryOp(Rohde_req(n)), QueryOp(AxisQuery)>>,
     ret |-> Rohde_unpack(InstrBinary(src, Rohde_req(n)),
                          Split(InstrQuery(src, AxisQuery), ";"))]

\* the six scalar parameters
Params == {"start_freq", "stop_freq", "cent_freq", "span", "rbw", "vbw"}

\* the settings the instrument starts with
PowerOnSettings == [p \in Params |-> Num(1, 1, 3)]

NoFile == [exists |-> FALSE, whole |-> TRUE, doc |-> <<>>]

NoCall == [op |-> "none"]

NoRet == [kind |-> "none"]

\* a constructed driver of main.py reads a trace
MainGetTrace ==
    /\ comm = "open" /\ driver = "main"
    /\ \E n \in 1..MaxTrace, mem \in BOOLEAN :
          /\ call' = [op |-> "get_trace", n |-> n, mem |-> mem]
          /\ \E r \in {Main_get_trace(traceSrc, n, mem)} :
                log' = r.log /\ ret' = r.ret
    /\ UNCHANGED <<reg, traceSrc, rx, file, driver, comm>>

\* a constructed driver of rohdeschwarzfpc.py reads a trace
RohdeGetTrace ==
    /\ comm = "open" /\ driver = "rohde"
    /\ \E n \in 1..MaxTrace :
          /\ call' = [op |-> "get_trace", n |-> n, mem |-> FALSE]
          /\ \E r \in {Rohde_get_trace(traceSrc, n)} :
                log' = r.log /\ ret' = r.ret
    /\ UNCHANGED <<reg, traceSrc, rx, file, driver, comm>>

\* the instrument completes a sweep: new samples.  What the last call saw is
\* no longer what the instrument holds, so the record of that call is dropped.
InstrumentSweep ==
    /\ \E y \in Vectors : traceSrc' = [traceSrc EXCEPT !.y = y]
    /\ call' = NoCall
    /\ log' = <<>>
    /\ ret' = NoRet
    /\ UNCHANGED <<reg, rx, file, driver, comm>>

\* the instrument's start, stop, unit or bandwidth setting changes (front
\* panel, another controller); the record of the last call is dropped
InstrumentSetting ==
    /\ \/ \E t \in StartTexts : traceSrc' = [traceSrc EXCEPT !.f1 = t]
       \/ \E t \in StopTexts : traceSrc' = [traceSrc EXCEPT !.f2 = t]
       \/ \E t \in UnitTexts : traceSrc' = [traceSrc EXCEPT !.unit = t]
       \/ \E t \in RbwTexts : traceSrc' = [traceSrc EXCEPT !.rbw = t]
    /\ call' = NoCall
    /\ log' = <<>>
    /\ ret' = NoRet
    /\ UNCHANGED <<reg, rx, file, driver, comm>>

\* the instrument before its first sweep
PowerOnSource ==
    [y |-> <<>>, f1 |-> <<"1", "E", "6">>,
     f2 |-> <<"4", "0", "0", "0", "0", "0", "0">>, unit |-> <<"D", "B", "M">>,
     rbw |-> <<"1", "0", "0", "0", "\n">>]

InitTrace ==
    /\ reg = PowerOnSettings
    /\ traceSrc = PowerOnSource
    /\ rx = <<>>
    /\ file = NoFile
    /\ driver \in {"main", "rohde"}
    /\ comm = "open"
    /\ log = <<>>
    /\ call = NoCall
    /\ ret = NoRet

NextTrace ==
    MainGetTrace \/ RohdeGetTrace \/ InstrumentSweep \/ InstrumentSetting

\* trace acquisition by either driver, on a constructed driver
SpecTrace == InitTrace /\ [][NextTrace]_vars

-----------------------------------------------------------------------------
(* Properties of trace acquisition (checked under SpecTrace). *)

IsGetTrace == call.op = "get_trace"

\* the samples the binary query of the last call delivered
Received == TraceData(traceSrc, call.mem, call.n)

\* sub occurs in s as a run of consecutive characters
Contains(s, sub) ==
    \E i \in 0..(Len(s) - Len(sub)) : SubSeq(s, i + 1, i + Len(sub)) = sub

\* the metadata of a returned trace names the unit u
UnitRecorded(u) ==
    IF driver = "main"
    THEN Contains(ret.value.xlabel, u) \/ Contains(ret.value.ylabel, u)
    ELSE \E k \in DOMAIN ret.value.mdt : ret.value.mdt[k] = u

\* C1: whenever get_trace returns, the frequency axis and the amplitude axis
\* have the same length, the number of samples the binary query delivered
\* (zero included).
C1_AxesSameLength ==
    (IsGetTrace /\ ret.kind = "return") =>
        /\ Len(ret.value.x) = Len(ret.value.y)
        /\ Len(ret.value.y) = Len(Received)

\* C1: main.py returned a trace for an empty amplitude vector in dBm
C1_Witness ==
    /\ IsGetTrace /\ driver = "main" /\ ret.kind = "return"
    /\ Received = <<>> /\ Lower(traceSrc.unit) = Dbm
    /\ ret.value.x = <<>>

\* C5 (as claimed): when the reported unit is not "dbm" in any case, the
\* returned amplitudes are the received ones and the returned metadata
\* holds the reported unit verbatim.
C5_PassThroughRecordsUnit ==
    (IsGetTrace /\ ret.kind = "return" /\ Lower(traceSrc.unit) # Dbm) =>
        /\ ret.value.y = Received
        /\ UnitRecorded(traceSrc.unit)

\* the whole tens of a sample in dB: y / 10
TensOf(r) == (r.n * TenTo(r.e)) \div 10

\* C6: when the reported unit is "dbm" in any case, every returned sample s
\* of a received sample y satisfies s * rbw * 20 = 10^(y/10), that is
\* s = 50 * 0.001 * 10^(y/10) / rbw, and the metadata names V^2/Hz.
C6_DbmToLinear ==
    (IsGetTrace /\ ret.kind = "return" /\ Lower(traceSrc.unit) = Dbm) =>
        /\ Len(ret.value.y) = Len(Received)
        /\ \A i \in 1..Len(Received) :
              NumMul(ret.value.y[i],
                     NumMul(ParseFloat(traceSrc.rbw).v, FromInt(20)))
                  = Num(1, 1, TensOf(Received[i]))
        /\ UnitRecorded(LinearUnit)

\* C6: the spec's example, [-50.0] dBm at rbw = 1000 gives 5e-10
C6_Witness ==
    /\ IsGetTrace /\ ret.kind = "return" /\ Lower(traceSrc.unit) = Dbm
    /\ Received = <<FromInt(-50)>>
    /\ ParseFloat(traceSrc.rbw).v = FromInt(1000)
    /\ ret.value.y = <<Num(5, 1, -10)>>

\* one of the three numeric fields of the combined answer is no number
BadStart == ~ParseFloat(traceSrc.f1).ok
BadStop == ~ParseFloat(traceSrc.f2).ok
BadRbw == ~ParseFloat(traceSrc.rbw).ok

RaisedValueError == ret.kind = "raise" /\ ret.exc = "ValueError"

\* C8 (as claimed): whenever the start, stop or bandwidth field is no
\* number, get_trace raises the conversion error and returns no trace.
C8_AnyBadFieldRaises ==
    (IsGetTrace /\ (BadStart \/ BadStop \/ BadRbw)) => RaisedValueError

\* C8 (amended): get_trace raises the conversion error whenever the start
\* or stop field is no number, or the bandwidth field is no number while the
\* unit is "dbm"; with another unit a bandwidth that is no number is never
\* converted and the trace is returned.
C8_ConvertedFieldRaises ==
    IsGetTrace =>
        /\ (BadStart \/ BadStop \/ (BadRbw /\ Lower(traceSrc.unit) = Dbm))
              => RaisedValueError
        /\ (~BadStart /\ ~BadStop /\ Lower(traceSrc.unit) # Dbm)
              => ret.kind = "return"

\* C8: a dBm trace whose bandwidth answer is no number made get_trace raise
C8_Witness ==
    /\ IsGetTrace /\ driver = "main"
    /\ ~BadStart /\ ~BadStop /\ BadRbw /\ Lower(traceSrc.unit) = Dbm
    /\ RaisedValueError

\* C9: every get_trace of main.py performs two transport operations: the
\* binary query (TRACe:DATA, or TRACe:DATA:MEMory when mem is set, for
\* trace n), then the combined text query; no write.  The answer's fields
\* are read as start, stop, unit, bandwidth: the returned axis runs from the
\* instrument's start to its stop, and the unit decides the conversion.
C9_TwoQueriesInOrder ==
    (IsGetTrace /\ driver = "main") =>
        /\ Len(log) = 2
        /\ log[1].op = "query_binary_values"
        /\ log[1].cmd =
              <<"FORMat REAL,32", ";", ":TRACe:DATA">>
                  \o (IF call.mem THEN <<":MEMory">> ELSE <<>>)
                  \o <<"?", " ", "TRACE">> \o DigitsOf(call.n)
        /\ log[2] =
              [op |-> "query",
               cmd |-> <<":FREQuency:STARt?", ";", ":FREQuency:STOP?", ";",
                         ":UNIT:POWer?", ";", ":BWIDth:RESolution?">>]
        /\ \A i \in 1..Len(log) : log[i].op # "write"
        /\ (ret.kind = "return" /\ Len(ret.value.x) >= 2) =>
              /\ ret.value.x[1] = ParseFloat(traceSrc.f1).v
              /\ ret.value.x[Len(ret.value.x)] = ParseFloat(traceSrc.f2).v
        /\ (ret.kind = "return" /\ Len(Received) >= 1) =>
              ((ret.value.y = Received) <=> (Lower(traceSrc.unit) # Dbm))

\* C9: main.py read a stored reference trace of two samples
C9_Witness ==
    /\ IsGetTrace /\ driver = "main" /\ call.mem
    /\ ret.kind = "return" /\ Len(ret.value.x) = 2
    /\ Len(log) = 2

\* what rohdeschwarzfpc.py does for the call main.py just served
RohdeTwin == Rohde_get_trace(traceSrc, call.n)

\* C10 (as claimed): for the same instrument answers, get_trace(n,
\* mem=False) of main.py sends the same commands as get_trace(n) of
\* rohdeschwarzfpc.py and returns the same frequency axis, the same
\* amplitudes and the same y-unit information.
C10_VariantsAgree ==
    (IsGetTrace /\ driver = "main" /\ ~call.mem) =>
        /\ log = RohdeTwin.log
        /\ ret.kind = RohdeTwin.ret.kind
        /\ ret.kind = "return" =>
              /\ ret.value.x = RohdeTwin.ret.value.x
              /\ ret.value.y = RohdeTwin.ret.value.y
              /\ UnitRecorded(RohdeTwin.ret.value.mdt.unit_y)

-----------------------------------------------------------------------------
(* Scalar parameter accessors and identification. *)

\* the header each setter of main.py writes (lines 103, 120, 137, 154, 171,
\* 188)
Main_set_header(p) ==
    CASE p = "start_freq" -> "FREQuency:STARt"
      [] p = "stop_freq"  -> "FREQuency:STOP"
      [] p = "cent_freq"  -> "FREQuency:CENTer"
      [] p = "span"       -> "FREQuency:SPAN"
      [] p = "rbw"        -> "BWIDth:RESolution"
      [] p = "vbw"        -> "BANDwidth:VIDeo"

\* a get_vbw that asks for the resolution bandwidth
Main_get_query_vbw_slip(p) ==
    CASE p = "start_freq" -> "FREQuency:STARt?"
      [] p = "stop_freq"  -> "FREQuency:STOP?"
      [] p = "cent_freq"  -> "FREQuency:CENTer?"
      [] p = "span"       -> "FREQuency:SPAN?"
      [] p = "rbw"        -> "BWIDth:RESolution?"
      [] p = "vbw"        -> "BWIDth:RESolution?"

\* the query each getter of main.py sends (lines 107, 124, 141, 158, 175,
\* 192)
Main_get_query(p) ==
    CASE p = "start_freq" -> "FREQuency:STARt?"
      [] p = "stop_freq"  -> "FREQuency:STOP?"
      [] p = "cent_freq"  -> "FREQuency:CENTer?"
      [] p = "span"       -> "FREQuency:SPAN?"
      [] p = "rbw"        -> "BWIDth:RESolution?"
      [] p = "vbw"        -> "BANDwidth:VIDeo?"

\* the header each setter of rohdeschwarzfpc.py writes
Rohde_set_header(p) ==
    CASE p = "start_freq" -> "FREQuency:STARt"
      [] p = "stop_freq"  -> "FREQuency:STOP"
      [] p = "cent_freq"  -> "FREQuency:CENTer"
      [] p = "span"       -> "FREQuency:SPAN"
      [] p = "rbw"        -> "BWIDth:RESolution"
      [] p = "vbw"        -> "BANDwidth:VIDeo"

\* the query each getter of rohdeschwarzfpc.py sends
Rohde_get_query(p) ==
    CASE p = "start_freq" -> "FREQuency:STARt?"
      [] p = "stop_freq"  -> "FREQuency:STOP?"
      [] p = "cent_freq"  -> "FREQuency:CENTer?"
      [] p = "span"       -> "FREQuency:SPAN?"
      [] p = "rbw"        -> "BWIDth:RESolution?"
      [] p = "vbw"        -> "BANDwidth:VIDeo?"

\* main.py: f'<header> {x}'
Main_set_cmd(p, x) == <<Main_set_header(p), " ">> \o PyFormat(x)

\* rohdeschwarzfpc.py: '<header> %s' % str(x)
Rohde_set_cmd(p, x) == <<Rohde_set_header(p), " ">> \o PyStr(x)

set_cmd(p, x) ==
    IF driver = "main" THEN Main_set_cmd(p, x) ELSE Rohde_set_cmd(p, x)

get_query(p) ==
    IF driver = "main" THEN <<Main_get_query(p)>> ELSE <<Rohde_get_query(p)>>

\* a getter without the try block: float(x), the error let through
FloatOrRaise(x) ==
    IF ParseFloat(x).ok THEN Returned(PyFloat(ParseFloat(x).v))
    ELSE Raised("ValueError", "float(x)")

\* the body every getter shares after its query:
\*   try: x = float(x)
\*   except ValueError: x = x.strip()
\*   return x
FloatOrStripped(x) ==
    IF ParseFloat(x).ok THEN Returned(PyFloat(ParseFloat(x).v))
    ELSE Returned(PyString(Strip(x)))

\* get_idn: the answer to *IDN?, stripped
IdnOf(x) == Returned(PyString(Strip(x)))

-----------------------------------------------------------------------------
(* The instrument's side of the scalar settings. *)

\* a <= b for finite numbers
NumLE(a, b) == NumSub(b, a).n >= 0

\* the range every setting of the modelled instrument accepts
InstrMin == Num(1, 1, 3)
InstrMax == Num(15, 1, 7)

Clamp(v) ==
    IF NumLE(v, InstrMin) THEN InstrMin
    ELSE IF NumLE(InstrMax, v) THEN InstrMax
    ELSE v

\* the setting a command header addresses, "none" for an unknown header
InstrParam(h) ==
    CASE h \in {"FREQuency:STARt", "FREQuency:STARt?"}     -> "start_freq"
      [] h \in {"FREQuency:STOP", "FREQuency:STOP?"}       -> "stop_freq"
      [] h \in {"FREQuency:CENTer", "FREQuency:CENTer?"}   -> "cent_freq"
      [] h \in {"FREQuency:SPAN", "FREQuency:SPAN?"}       -> "span"
      [] h \in {"BWIDth:RESolution", "BWIDth:RESolution?"} -> "rbw"
      [] h \in {"BANDwidth:VIDeo", "BANDwidth:VIDeo?"}     -> "vbw"
      [] OTHER                                             -> "none"

\* the value the instrument takes from a command's argument: a number in
\* range as it is, one out of range clamped, and anything else not at all
\* (the setting keeps its value old)
InstrValue(parsed, old) ==
    IF parsed.ok /\ IsFinite(parsed.v) THEN Clamp(parsed.v) ELSE old

InstrStore(r, p, arg) ==
    IF p = "none" THEN r
    ELSE [r EXCEPT ![p] = InstrValue(ParseFloat(arg), r[p])]

\* the settings after the instrument has taken the command '<header> <arg>'
InstrWrite(r, cmd) ==
    IF Len(cmd) < 3 \/ cmd[2] # " " THEN r
    ELSE InstrStore(r, InstrParam(cmd[1]), SubSeq(cmd, 3, Len(cmd)))

\* the ways the instrument may write the number v = n * 10^e (e >= 0) of a
\* setting: plain digits and the line end; mantissa and exponent; digits
\* with a fraction of zeros
InstrRenderings(v) ==
    {DigitsOf(v.n) \o Zeros(v.e) \o <<"\n">>,
     <<DigitCh[(v.n \div TenTo(Len(DigitsOf(v.n)) - 1)) + 1], ".">>
         \o Tail(DigitsOf(v.n)) \o <<"E", "+">>
         \o DigitsOf(v.e + Len(DigitsOf(v.n)) - 1) \o <<"\n">>}
    \cup {DigitsOf(v.n) \o Zeros(v.e) \o <<".">> \o Zeros(k) : k \in 1..MaxPad}

\* the instrument's possible answers to a scalar query
InstrAnswers(r, q) ==
    IF InstrParam(q[1]) = "none" THEN {<<>>}
    ELSE InstrRenderings(r[InstrParam(q[1])])

\* the instrument's answer to *IDN?
IdnText == <<"Rohde&Schwarz,FPC1000,1328.6660K02/100000,1.70", "\n">>

\* values a caller hands to a setter: a float and a str in range, an int
\* out of range
SetArgs ==
    {PyFloat(Num(15, 1, 7)), PyString(<<"1", "e", "3">>), PyInt(200000000)}

ReadOp(cmd, resp) == [op |-> "query", cmd |-> cmd, resp |-> resp]

\* set_<p>(x) of the constructed driver: one write, nothing read back
SetParam ==
    /\ comm = "open"
    /\ \E p \in Params, x \in SetArgs :
          /\ reg' = InstrWrite(reg, set_cmd(p, x))
          /\ log' = <<WriteOp(set_cmd(p, x))>>
          /\ call' = [op |-> "set", p |-> p, x |-> x]
    /\ ret' = Returned(PyNone)
    /\ UNCHANGED <<traceSrc, rx, file, driver, comm>>

\* get_<p>() of the constructed driver, the instrument answering from its
\* setting.  after_set: the call just before was set_<p>.
GetParam ==
    /\ comm = "open"
    /\ \E p \in Params :
          /\ \E resp \in InstrAnswers(reg, get_query(p)) :
                /\ log' = <<ReadOp(get_query(p), resp)>>
                /\ ret' = FloatOrStripped(resp)
          /\ call' = [op |-> "get", p |-> p,
                      after_set |-> call.op = "set" /\ call.p = p]
    /\ UNCHANGED <<reg, traceSrc, rx, file, driver, comm>>

\* get_idn() of the constructed driver
GetIdn ==
    /\ comm = "open"
    /\ log' = <<ReadOp(<<"*IDN?">>, IdnText)>>
    /\ ret' = IdnOf(IdnText)
    /\ call' = [op |-> "get_idn"]
    /\ UNCHANGED <<reg, traceSrc, rx, file, driver, comm>>

InitSetGet ==
    /\ reg = PowerOnSettings
    /\ traceSrc = PowerOnSource
    /\ rx = <<>>
    /\ file = NoFile
    /\ driver \in {"main", "rohde"}
    /\ comm = "open"
    /\ log = <<>>
    /\ call = NoCall
    /\ ret = NoRet

NextSetGet == SetParam \/ GetParam \/ GetIdn

\* setters and getters against an instrument that answers from its settings
SpecSetGet == InitSetGet /\ [][NextSetGet]_vars

\* characters a misbehaving instrument may send
RespAlphabet == {"1", ".", "e", "-", " ", "i", "n", "f"}

\* the instrument sends one more character of an answer; what the last call
\* read is no longer what waits, so the record of that call is dropped
InstrumentSends ==
    /\ Len(rx) < MaxRespLen
    /\ \E c \in RespAlphabet : rx' = Append(rx, c)
    /\ call' = NoCall
    /\ log' = <<>>
    /\ ret' = NoRet
    /\ UNCHANGED <<reg, traceSrc, file, driver, comm>>

\* get_<p>() of the constructed driver reading whatever answer waits
GetParamRaw ==
    /\ comm = "open"
    /\ call.op = "none"
    /\ \E p \in Params :
          /\ log' = <<ReadOp(get_query(p), rx)>>
          /\ ret' = FloatOrStripped(rx)
          /\ call' = [op |-> "get", p |-> p, after_set |-> FALSE]
    /\ rx' = <<>>
    /\ UNCHANGED <<reg, traceSrc, file, driver, comm>>

NextGetter == InstrumentSends \/ GetParamRaw

\* getters against a transport that may deliver any answer
SpecGetter == InitSetGet /\ [][NextGetter]_vars

-----------------------------------------------------------------------------
(* Properties of the scalar accessors. *)

\* the number a setter's argument denotes
NumberOf(x) == IF x.t = "str" THEN ParseFloat(x.s).v ELSE x.v

DenotesNumber(x) ==
    x.t \in {"float", "int"} \/ (x.t = "str" /\ ParseFloat(x.s).ok)

\* the last call was set_<p>(v) and the instrument holds v as it was given
AcceptedUnchanged ==
    /\ call.op = "set"
    /\ DenotesNumber(call.x)
    /\ reg[call.p] = NumberOf(call.x)

\* C2 (checked under SpecSetGet): set_<p>(v) and then get_<p>(), nothing in
\* between, returns v as a float whenever the instrument took v unchanged,
\* whatever calls came before.
C2_SetThenGetReturnsValue ==
    [][(AcceptedUnchanged /\ call'.op = "get" /\ call'.p = call.p)
          => ret' = Returned(PyFloat(NumberOf(call.x)))]_vars

\* C2: 1.5e8 was written to the video bandwidth, taken unchanged, and read
\* back at once, the answer in mantissa-exponent form, the other settings as
\* earlier calls left them
C2_Witness ==
    /\ call.op = "get" /\ call.p = "vbw" /\ call.after_set
    /\ reg["vbw"] = Num(15, 1, 7)
    /\ reg["rbw"] = Num(15, 1, 7)
    /\ log[1].resp = <<"1", ".", "5", "E", "+", "8", "\n">>
    /\ ret = Returned(PyFloat(Num(15, 1, 7)))

HasNoOuterWhitespace(s) ==
    s = <<>> \/ (s[1] \notin Whitespace /\ s[Len(s)] \notin Whitespace)

\* C7 (checked under SpecGetter): whatever answer the transport delivers,
\* a scalar getter raises nothing: it returns the float when the answer
\* reads as one, and otherwise the answer without its outer whitespace.
C7_GetterNeverRaises ==
    call.op = "get" =>
        /\ ret.kind = "return"
        /\ ParseFloat(log[1].resp).ok =>
              ret.value = PyFloat(ParseFloat(log[1].resp).v)
        /\ ~ParseFloat(log[1].resp).ok =>
              /\ ret.value.t = "str"
              /\ ret.value.s = Strip(log[1].resp)
              /\ HasNoOuterWhitespace(ret.value.s)

\* C7: an answer that is no number, with whitespace around it, came back as
\* the trimmed text
C7_Witness ==
    /\ call.op = "get"
    /\ log[1].resp = <<" ", "-", " ">>
    /\ ret = Returned(PyString(<<"-">>))

-----------------------------------------------------------------------------
(* Config persistence (main.py).  A Python dict is the sequence of its     *)
(* items in insertion order, keys distinct; the JSON text of config.json   *)
(* is the sequence of its members as written, keys possibly repeated.      *)

KeyAddress == [t |-> "str", s |-> "address"]
KeyStr7 == [t |-> "str", s |-> "7"]
KeyInt7 == [t |-> "int", s |-> "7"]

\* keys a caller may use in a mapping handed to set_config
Keys == {KeyAddress, KeyStr7, KeyInt7}

AddressText == "TCPIP0::172.16.10.10::inst0::INSTR"

ValAddress == [t |-> "str", s |-> AddressText]
ValTuple == [t |-> "tuple", s |-> "1, 2"]
ValSet == [t |-> "set", s |-> "1, 2"]

\* values a caller may use in a mapping handed to set_config
Values == {ValAddress, ValTuple, ValSet}

Item(k, v) == [k |-> k, v |-> v]

DictKeys(d) == {d[i].k : i \in 1..Len(d)}

\* key in d
DictHas(d, key) == key \in DictKeys(d)

\* d[key]
DictGet(d, key) == d[CHOOSE i \in 1..Len(d) : d[i].k = key].v

\* d[key] = val
DictSet(d, key, val) ==
    IF DictHas(d, key)
    THEN [i \in 1..Len(d) |-> IF d[i].k = key THEN Item(key, val) ELSE d[i]]
    ELSE Append(d, Item(key, val))

RECURSIVE update(_, _)
\* c.update(newc)
update(c, newc) ==
    IF newc = <<>> THEN c
    ELSE update(DictSet(c, Head(newc).k, Head(newc).v), Tail(newc))

\* json.dump of a key: a str as it is, an int as its decimal text
JsonKey(k) == k.s

\* json.dump of a value: a str as a string, a tuple or a list as an array
JsonValue(v) ==
    IF v.t = "str" THEN [t |-> "string", s |-> v.s]
    ELSE [t |-> "array", s |-> v.s]

\* json.dump(c, fp): the members in the dict's order
json_dump(c) == [i \in 1..Len(c) |-> Item(JsonKey(c[i].k), JsonValue(c[i].v))]

\* json.load of a value: a string as a str, an array as a list
PyValue(j) ==
    IF j.t = "string" THEN [t |-> "str", s |-> j.s]
    ELSE [t |-> "list", s |-> j.s]

RECURSIVE load_into(_, _)
load_into(d, doc) ==
    IF doc = <<>> THEN d
    ELSE load_into(DictSet(d, [t |-> "str", s |-> Head(doc).k],
                           PyValue(Head(doc).v)),
                   Tail(doc))

\* json.load(fp): every key a str, a repeated key keeping its last value
json_load(doc) == load_into(<<>>, doc)

\* get_config() on the file f: a missing file reads as {}, a text that is
\* not a whole JSON document makes json.load raise
get_config(f) ==
    IF ~f.exists THEN Returned(<<>>)
    ELSE IF ~f.whole THEN Raised("JSONDecodeError", "json.load")
    ELSE Returned(json_load(f.doc))

\* json has an encoding for v
Serializable(v) == v.t # "set"

\* the items json.dump writes before it meets a value it cannot encode
Encodable(c) ==
    IF \A i \in 1..Len(c) : Serializable(c[i].v) THEN c
    ELSE SubSeq(c, 1,
                (CHOOSE i \in 1..Len(c) :
                    /\ ~Serializable(c[i].v)
                    /\ \A j \in 1..(i - 1) : Serializable(c[j].v)) - 1)

\* with open(filename, 'w') as fp: json.dump(c, fp, indent=1)
\* open truncates the file, json.dump writes item by item, and a TypeError
\* leaves what was written so far
write_config(c) ==
    IF Encodable(c) = c
    THEN [file |-> [exists |-> TRUE, whole |-> TRUE, doc |-> json_dump(c)],
          ret |-> Returned(<<>>)]
    ELSE [file |-> [exists |-> TRUE, whole |-> FALSE,
                    doc |-> json_dump(Encodable(c))],
          ret |-> Raised("TypeError", "json.dump")]

\* set_config(newc) on the file f: the file afterwards and the outcome
set_config(f, newc) ==
    IF get_config(f).kind = "raise" THEN [file |-> f, ret |-> get_config(f)]
    ELSE write_config(update(get_config(f).value, newc))

RECURSIVE DictsOfLen(_)
DictsOfLen(k) ==
    IF k = 0 THEN {<<>>}
    ELSE {Append(d, Item(key, v)) :
             d \in DictsOfLen(k - 1), key \in Keys, v \in Values}

\* the mappings a caller hands to set_config
NewMappings ==
    {d \in UNION {DictsOfLen(k) : k \in 0..MaxNew} :
        \A i, j \in 1..Len(d) : d[i].k = d[j].k => i = j}

\* set_config(newc).  before: the outcome of get_config() when the call
\* began.
SetConfig ==
    /\ \E newc \in NewMappings :
          /\ call' = [op |-> "set_config", newc |-> newc,
                      before |-> get_config(file)]
          /\ \E r \in {set_config(file, newc)} :
                /\ file' = r.file
                /\ ret' = r.ret
    /\ log' = <<>>
    /\ UNCHANGED <<reg, traceSrc, rx, driver, comm>>

\* get_config()
GetConfig ==
    /\ call' = [op |-> "get_config"]
    /\ log' = <<>>
    /\ ret' = get_config(file)
    /\ UNCHANGED <<reg, traceSrc, rx, file, driver, comm>>

-----------------------------------------------------------------------------
(* Construction of the driver. *)

RmOp == [op |-> "ResourceManager", arg |-> ""]

OpenOp(address) == [op |-> "open_resource", arg |-> address]

VisaError(at) == Raised("VisaError", at)

\* rm.open_resource(address): the resource opens (opened) or pyvisa raises
open_resource(address, opened) ==
    IF opened
    THEN [log |-> <<RmOp, OpenOp(address)>>, ret |-> Returned(<<>>)]
    ELSE [log |-> <<RmOp, OpenOp(address)>>,
          ret |-> VisaError("open_resource")]

\* the address the config holds opens if it is a str and the resource opens
open_configured(c, opened) ==
    open_resource(DictGet(c, KeyAddress).s,
                  opened /\ DictGet(c, KeyAddress).t = "str")

\* FPC.__init__ of main.py.  rm: pyvisa.ResourceManager() finds its
\* backend; opened: the resource opens.
Main_init(address, f, rm, opened) ==
    IF ~rm THEN [log |-> <<RmOp>>, ret |-> VisaError("ResourceManager")]
    ELSE IF address # "" THEN open_resource(address, opened)
    ELSE IF get_config(f).kind = "raise"
    THEN [log |-> <<RmOp>>, ret |-> get_config(f)]
    ELSE IF DictHas(get_config(f).value, KeyAddress)
    THEN open_configured(get_config(f).value, opened)
    ELSE [log |-> <<RmOp>>, ret |-> Raised("ValueError", "address")]

\* the default of rohdeschwarzfpc.py's address parameter
Rohde_default_address == "TCPIP0::172.16.10.10::inst0::INSTR"

\* FPC.__init__ of rohdeschwarzfpc.py (lines 20-22); address "": omitted
Rohde_init(address, rm, opened) ==
    IF ~rm THEN [log |-> <<RmOp>>, ret |-> VisaError("ResourceManager")]
    ELSE open_resource(IF address = "" THEN Rohde_default_address
                       ELSE address, opened)

\* addresses a caller passes to the constructor; "": none
AddressArgs == {"", "TCPIP0::10.0.0.2::inst0::INSTR"}

init(cls, address, f, rm, opened) ==
    IF cls = "main" THEN Main_init(address, f, rm, opened)
    ELSE Rohde_init(address, rm, opened)

\* FPC(address) of either class
Construct ==
    /\ \E cls \in {"main", "rohde"}, address \in AddressArgs,
          rm \in BOOLEAN, opened \in BOOLEAN :
          /\ call' = [op |-> "init", cls |-> cls, address |-> address]
          /\ \E r \in {init(cls, address, file, rm, opened)} :
                /\ log' = r.log
                /\ ret' = r.ret
                /\ driver' = IF r.ret.kind = "return" THEN cls ELSE driver
                /\ comm' = IF r.ret.kind = "return" THEN "open" ELSE comm
    /\ UNCHANGED <<reg, traceSrc, rx, file>>

InitConfig ==
    /\ reg = PowerOnSettings
    /\ traceSrc = PowerOnSource
    /\ rx = <<>>
    /\ file \in {NoFile, write_config(<<>>).file,
                 write_config(<<Item(KeyAddress, ValAddress)>>).file}
    /\ driver = "none"
    /\ comm = "closed"
    /\ log = <<>>
    /\ call = NoCall
    /\ ret = NoRet

NextConfig == SetConfig \/ GetConfig \/ Construct

\* the config functions and the constructors, from any config file
SpecConfig == InitConfig /\ [][NextConfig]_vars

-----------------------------------------------------------------------------
(* Properties of construction and config persistence (under SpecConfig). *)

\* the last call was main.py's FPC() without an address while config.json
\* holds no 'address'
NoAddressAnywhere ==
    /\ call.op = "init" /\ call.cls = "main" /\ call.address = ""
    /\ get_config(file).kind = "return"
    /\ ~DictHas(get_config(file).value, KeyAddress)

\* C3: constructing without an address while the config holds none always
\* fails with the configuration error (ValueError), never with a transport
\* error; the transport is never opened, and nothing of the transport layer
\* that can fail runs before the address check.
C3_ConfigErrorNotTransportError ==
    NoAddressAnywhere =>
        /\ ret = Raised("ValueError", "address")
        /\ \A i \in 1..Len(log) : log[i].op # "open_resource"
        /\ log = <<>>

\* what get_config() gives now
Now == get_config(file)

\* get_config() still succeeds, and every key stored before the call that
\* newc does not name is still stored with the value it had
StoredKeysKept ==
    /\ Now.kind = "return"
    /\ \A i \in 1..Len(call.before.value) :
          DictHas(call.newc, call.before.value[i].k)
              \/ /\ DictHas(Now.value, call.before.value[i].k)
                 /\ DictGet(Now.value, call.before.value[i].k)
                        = call.before.value[i].v

\* C4: a missing file reads as the empty mapping and not as an error, and
\* after every set_config(newc), whatever newc is, every previously stored
\* key that newc does not name keeps its value and no key is deleted.
C4_NoKeyEverDeleted ==
    /\ (call.op = "get_config" /\ ~file.exists) => ret = Returned(<<>>)
    /\ (call.op = "set_config" /\ call.before.kind = "return")
           => StoredKeysKept

=============================================================================
